---- MODULE Spec2Model ----
(***************************************************************************)
(* A model of torque_on_2d_shapes (src/src/main.rs): two rigid bodies      *)
(* pulled by "tuggers", advanced once per tick, driven by pointer and key  *)
(* events.                                                                 *)
(*                                                                         *)
(* Numbers.  The program computes in f32.  The model computes in fixed     *)
(* point with round-to-nearest:                                            *)
(*   - lengths, positions, velocities: integers, LinScale units per pixel; *)
(*   - angles: integers, AngScale units per radian;                        *)
(*   - sines, cosines and unit vectors: integers scaled by TrigScale;      *)
(*   - a vector is a pair <<x, y>>;                                        *)
(*   - NaN is one reserved value that every operation propagates the way   *)
(*     IEEE-754 does (comparisons with it are false, min/max drop it).     *)
(* The coefficients of a body are kept in the unit named beside each.      *)
(***************************************************************************)
EXTENDS Integers, Sequences, FiniteSets, TLC

LinScale == 1000

AngScale == 10000

TrigScale == 10000

NaN == -999999999

ZERO == <<0, 0>>

NaNVec == <<NaN, NaN>>

IsNaN(a) == a = NaN

IsNaNVec(v) == v[1] = NaN \/ v[2] = NaN

\* the element of a one-element set; The({e(x) : x \in {v}}) is e with v
\* computed once, as the arguments of a Rust call are
The(S) == CHOOSE x \in S : TRUE

Abs(a) == IF a < 0 THEN -a ELSE a

\* a / d rounded to the nearest integer (d > 0), ties away from zero
RDiv(a, d) ==
    IF a >= 0 THEN (2 * a + d) \div (2 * d) ELSE -((2 * (-a) + d) \div (2 * d))

\* a * b / d rounded, for a scale d <= 10^4 and |b| <= 10^5, without leaving
\* 32 bits: a is split into its multiple of d and the rest.
MulScale(a, b, d) ==
    LET s == IF (a < 0) = (b < 0) THEN 1 ELSE -1
        A == Abs(a)
        B == Abs(b)
    IN  s * ((A \div d) * B + RDiv((A % d) * B, d))

(* ---- f32 arithmetic with NaN ---- *)

FAdd(a, b) == IF IsNaN(a) \/ IsNaN(b) THEN NaN ELSE a + b

FSub(a, b) == IF IsNaN(a) \/ IsNaN(b) THEN NaN ELSE a - b

FNeg(a) == IF IsNaN(a) THEN NaN ELSE -a

\* a <= b in f32: false when either side is NaN
FLeq(a, b) == ~IsNaN(a) /\ ~IsNaN(b) /\ a <= b

\* f32::max and f32::min return the other argument when one is NaN
FMax(a, b) == IF IsNaN(a) THEN b ELSE IF IsNaN(b) THEN a ELSE IF a >= b THEN a ELSE b

FMin(a, b) == IF IsNaN(a) THEN b ELSE IF IsNaN(b) THEN a ELSE IF a <= b THEN a ELSE b

VAdd(u, v) == IF IsNaNVec(u) \/ IsNaNVec(v) THEN NaNVec ELSE <<u[1] + v[1], u[2] + v[2]>>

VSub(u, v) == IF IsNaNVec(u) \/ IsNaNVec(v) THEN NaNVec ELSE <<u[1] - v[1], u[2] - v[2]>>

(* ---- square root and vector length ---- *)

\* x * x for 0 <= x < 2 * 10^6 as a two-digit number <<hi, lo>> in base 10^6
Sq2(x) ==
    LET a == x \div 1000
        b == x % 1000
        mid == 2 * a * b
        lo0 == (mid % 1000) * 1000 + b * b
    IN  <<a * a + (mid \div 1000) + (lo0 \div 1000000), lo0 % 1000000>>

Add2(p, q) ==
    LET lo == p[2] + q[2]
    IN  <<p[1] + q[1] + (lo \div 1000000), lo % 1000000>>

Leq2(p, q) == p[1] < q[1] \/ (p[1] = q[1] /\ p[2] <= q[2])

\* the largest h in lo..hi with h * h <= n2 (bisection)
RECURSIVE SqrtBisect(_, _, _)
SqrtBisect(n2, lo, hi) ==
    IF lo >= hi THEN lo
    ELSE The({IF Leq2(Sq2(m), n2) THEN SqrtBisect(n2, m, hi) ELSE SqrtBisect(n2, lo, m - 1) :
              m \in {(lo + hi + 1) \div 2}})

\* h, the integer part of the square root of n2, rounded to nearest
RoundRoot(n2, h) == IF Leq2(n2, Add2(Sq2(h), <<0, h>>)) THEN h ELSE h + 1

\* sqrt(x * x + y * y) for x, y >= 0; it lies between the larger of the two
\* and their sum
Hypot(x, y) ==
    The({RoundRoot(Add2(Sq2(x), Sq2(y)), h) :
         h \in {SqrtBisect(Add2(Sq2(x), Sq2(y)), IF x >= y THEN x ELSE y, x + y)}})

\* glam Vec2::length: sqrt(x * x + y * y), rounded to nearest
Length(v) == IF IsNaNVec(v) THEN NaN ELSE Hypot(Abs(v[1]), Abs(v[2]))

(* ---- sine, cosine, atan2 ---- *)

Pi == 31416

HalfPi == 15708

TwoPi == 62832

\* one Horner step of the Taylor series: 1 - x2 * t / k
Horner(x2, t, k) == TrigScale - RDiv(x2 * t, k * TrigScale)

\* sin and cos of x in -HalfPi..HalfPi, scaled by TrigScale
SinQ(x) ==
    LET x2 == RDiv(x * x, AngScale)
        t == Horner(x2, Horner(x2, Horner(x2, Horner(x2, TrigScale, 72), 42), 20), 6)
    IN  RDiv(x * t, AngScale)

CosQ(x) ==
    LET x2 == RDiv(x * x, AngScale)
    IN  Horner(x2, Horner(x2, Horner(x2, Horner(x2, Horner(x2, TrigScale, 90), 56), 30), 12), 2)

\* the angle brought into -Pi..Pi-1
Reduce(a) == ((a + Pi) % TwoPi) - Pi

Sin(a) ==
    IF IsNaN(a) THEN NaN
    ELSE LET r == Reduce(a)
         IN  IF r > HalfPi THEN SinQ(Pi - r)
             ELSE IF r < -HalfPi THEN SinQ(-Pi - r)
             ELSE SinQ(r)

Cos(a) ==
    IF IsNaN(a) THEN NaN
    ELSE LET r == Abs(Reduce(a))
         IN  IF r > HalfPi THEN -CosQ(Pi - r) ELSE CosQ(r)

\* n and d divided by ten until the quotient n / d fits 32 bits
RECURSIVE Shrink(_, _)
Shrink(n, d) == IF d < 100000 THEN <<n, d>> ELSE Shrink(n \div 10, d \div 10)

\* one Horner step of the arctangent polynomial: c + t2 * a
AtanStep(c, t2, a) == c + RDiv(t2 * a, TrigScale)

\* atan(t) for t in 0..1 (scaled by TrigScale), by the odd polynomial of degree
\* 11 that libm-style implementations use; an angle in 0..Pi/4
AtanPoly(t, t2) ==
    RDiv(t * AtanStep(10000, t2, AtanStep(-3326, t2, AtanStep(1935, t2,
             AtanStep(-1164, t2, AtanStep(527, t2, -117))))), TrigScale)

AtanUnit(t) == AtanPoly(t, RDiv(t * t, TrigScale))

AtanShrunk(s) == AtanUnit(RDiv(s[1] * TrigScale, s[2]))

\* atan(n / d) for 0 <= n <= d, d > 0
AtanRatio(n, d) == AtanShrunk(Shrink(n, d))

\* f32::atan2(y, x): the angle of <<x, y>> in -Pi..Pi; atan2(0, 0) = 0
Atan2(y, x) ==
    IF IsNaN(y) \/ IsNaN(x) THEN NaN
    ELSE IF x = 0 /\ y = 0 THEN 0
    ELSE LET ax == Abs(x)
             ay == Abs(y)
             a0 == IF ay <= ax THEN AtanRatio(ay, ax) ELSE HalfPi - AtanRatio(ax, ay)
             a1 == IF x >= 0 THEN a0 ELSE Pi - a0
         IN  IF y >= 0 THEN a1 ELSE -a1

(* ---- VecXyExt, NegIf, VecLa ---- *)

\* v * num / den, component-wise (a vector times an f32 coefficient)
VScale(v, num, den) ==
    IF IsNaNVec(v) THEN NaNVec
    ELSE <<MulScale(v[1], num, den), MulScale(v[2], num, den)>>

\* toward_zero_saturating without the clamp at zero
toward_zero_saturating_NoClamp(self, by) ==
    IF FLeq(0, self) THEN FSub(self, by) ELSE FAdd(self, by)

\* NegIf::toward_zero_saturating
toward_zero_saturating(self, by) ==
    The({IF FLeq(0, s) THEN FMax(FSub(s, by), 0) ELSE FMin(FAdd(s, by), 0) : s \in {self}})

\* VecXyExt::rotated, given [sa, ca] = [angle.sin(), angle.cos()]
RotatedBy(self, sa, ca) ==
    IF IsNaNVec(self) \/ IsNaN(sa) \/ IsNaN(ca) THEN NaNVec
    ELSE <<MulScale(self[1], ca, TrigScale) - MulScale(self[2], sa, TrigScale),
           MulScale(self[1], sa, TrigScale) + MulScale(self[2], ca, TrigScale)>>

\* VecXyExt::rotated
rotated(self, angle) == RotatedBy(self, Sin(angle), Cos(angle))

\* v and its length divided by ten until the length is below 50000
RECURSIVE ShrinkVec(_, _)
ShrinkVec(v, len) ==
    IF len < 50000 THEN <<v, len>>
    ELSE ShrinkVec(<<RDiv(v[1], 10), RDiv(v[2], 10)>>, RDiv(len, 10))

\* s[1] / s[2] scaled by TrigScale, for a vector s[1] of length s[2]
UnitOf(s) == <<RDiv(s[1][1] * TrigScale, s[2]), RDiv(s[1][2] * TrigScale, s[2])>>

\* glam Vec2::normalize_or_zero, given len = v.length()
NormalizeWith(v, len) ==
    IF IsNaN(len) \/ len = 0 THEN ZERO ELSE The({UnitOf(s) : s \in {ShrinkVec(v, len)}})

\* glam Vec2::normalize_or_zero: the unit vector of v scaled by TrigScale, and
\* the zero vector when the reciprocal of the length is not finite and positive
normalize_or_zero(v) == The({NormalizeWith(v, len) : len \in {Length(v)}})

\* a unit vector (scaled by TrigScale) times an f32 length
UnitTimes(u, length) ==
    IF IsNaN(length) THEN NaNVec
    ELSE <<MulScale(length, u[1], TrigScale), MulScale(length, u[2], TrigScale)>>

\* VecXyExt::with_length
with_length(self, length) ==
    The({UnitTimes(u, l) : u \in {normalize_or_zero(self)}, l \in {length}})

\* VecXyExt::reduce_length_saturating
reduce_length_saturating(self, by) ==
    The({with_length(s, toward_zero_saturating(Length(s), by)) : s \in {self}})

\* the projection of self onto the unit vector u (scaled by TrigScale)
ProjectOntoUnit(self, u) ==
    UnitTimes(u, MulScale(self[1], u[1], TrigScale) + MulScale(self[2], u[2], TrigScale))

\* glam Vec2::project_onto: other * (self . other / other . other), which is
\* 0 * (0 / 0) = NaN when other is the zero vector
project_onto(self, other) ==
    IF IsNaNVec(self) \/ IsNaNVec(other) \/ other = ZERO THEN NaNVec
    ELSE ProjectOntoUnit(self, normalize_or_zero(other))

\* VecXyExt::split_parr_perp, given parr
SplitWith(self, parr) == <<parr, VSub(self, parr)>>

\* VecXyExt::split_parr_perp
split_parr_perp(self, other) == SplitWith(self, project_onto(self, other))

\* the sign of the perp-dot product u.x * v.y - u.y * v.x
PerpDotNegative(u, v) ==
    MulScale(v[2], u[1], TrigScale) - MulScale(v[1], u[2], TrigScale) < 0

\* contact.angle_between(v) < 0.: the angle carries the sign of the perp-dot
\* product contact.x * v.y - contact.y * v.x; a NaN angle is not below zero
AngleBetweenNegative(contact, v) ==
    IF IsNaNVec(contact) \/ IsNaNVec(v) THEN FALSE
    ELSE PerpDotNegative(normalize_or_zero(contact), v)

\* VecLa::to_xy
to_xy(la) == rotated(<<la.length, 0>>, la.angle)

\* VecLa::from_xy
from_xy(xy) == [length |-> Length(xy), angle |-> Atan2(xy[2], xy[1])]

(* ---- FieldScalars and Body ---- *)

\* FieldScalars::default
FieldScalarsDefault == [xy |-> ZERO, angle |-> 0]

\* FieldScalars::add / add_from
add(self, other) ==
    [xy |-> VAdd(self.xy, other.xy), angle |-> FAdd(self.angle, other.angle)]

\* units of the coefficients: acc_scalar of xy in 1/AccDen, acc_scalar of angle
\* in AngScale/LinScale/AngAccDen radians per pixel, linear_friction_scalar in
\* 1/FricDen; constant_friction in linear (xy) and angle units
AccDen == 1000

AngAccDen == 10000

FricDen == 100

\* Body::xy_relative_handle
xy_relative_handle(body, body_handle) ==
    to_xy([length |-> body_handle.length,
           angle |-> FAdd(body_handle.angle, body.pos.angle)])

\* Body::absolute_handle
absolute_handle(body, body_handle) ==
    VAdd(xy_relative_handle(body, body_handle), body.pos.xy)

\* the two assertions of tug_acc on rotatable_proportion = contact.length() /
\* max_tug_handle_distance; f32 division is monotone, so the quotient is <= 1.
\* exactly when the dividend is <= the (positive) divisor
RotatableProportionOk(body, len) ==
    FLeq(0, len) /\ FLeq(len, body.max_tug_handle_distance)

\* tug_acc's result: the FieldScalars built from fu, fr and [fr_parr, fr_perp]
TugAccResult(body, contact, fu, fr, pp) ==
    [panic |-> FALSE,
     xy |-> VScale(VAdd(fu, with_length(fr, Length(pp[1]))),
                   body.statics.xy.acc_scalar, AccDen),
     angle |-> IF IsNaNVec(pp[2]) THEN NaN
               ELSE (IF AngleBetweenNegative(contact, pp[2]) THEN -1 ELSE 1)
                    * MulScale(Length(pp[2]), body.statics.angle.acc_scalar, AngAccDen)]

\* tug_acc from the rotatable force fr on: [fr, force - fr], then the split of
\* fr into its components parallel and perpendicular to contact
TugAccSplit(body, contact, force, fr) ==
    TugAccResult(body, contact, VSub(force, fr), fr, split_parr_perp(fr, contact))

\* tug_acc for a non-zero force, given len = contact.length(); panic is TRUE
\* when an assertion on rotatable_proportion fails
TugAccNonZero(body, contact, force, len) ==
    IF ~RotatableProportionOk(body, len)
    THEN [panic |-> TRUE, xy |-> ZERO, angle |-> 0]
    ELSE TugAccSplit(body, contact, force,
             VScale(force, RDiv(len * TrigScale, body.max_tug_handle_distance), TrigScale))

\* tug_acc without the early return on a zero force
tug_acc_NoZeroForceReturn(body, contact, force) ==
    TugAccNonZero(body, contact, force, Length(contact))

\* Body::tug_acc
tug_acc(body, contact, force) ==
    IF force = ZERO THEN [panic |-> FALSE, xy |-> ZERO, angle |-> 0]
    ELSE TugAccNonZero(body, contact, force, Length(contact))

Gravity == 150

\* update's map closure, given xy_relative_handle
TugAtHandle(body, tugger, handle) ==
    tug_acc(body, handle, VSub(tugger.world_dest, VAdd(handle, body.pos.xy)))

\* update's map closure for one populated slot
TuggerAcc(body, tugger) ==
    TugAtHandle(body, tugger, xy_relative_handle(body, tugger.relative_body_handle_xy))

\* update's filter_map, map and fold over the slots from slot i on; a failed
\* assertion ends it
RECURSIVE FoldTuggers(_, _, _)
RECURSIVE FoldStep(_, _, _, _)
FoldStep(body, i, acc, a) ==
    IF a.panic THEN [panic |-> TRUE, acc |-> acc]
    ELSE FoldTuggers(body, i + 1, add(acc, [xy |-> a.xy, angle |-> a.angle]))

FoldTuggers(body, i, acc) ==
    IF i > 2 THEN [panic |-> FALSE, acc |-> acc]
    ELSE IF body.tuggers[i] = <<>> THEN FoldTuggers(body, i + 1, acc)
    ELSE FoldStep(body, i, acc, TuggerAcc(body, body.tuggers[i][1]))

\* update, the linear friction and then the constant friction on the velocity
Friction(statics, vel) ==
    [xy |-> reduce_length_saturating(
                VScale(vel.xy, statics.xy.linear_friction_scalar, FricDen),
                statics.xy.constant_friction),
     angle |-> toward_zero_saturating(
                IF IsNaN(vel.angle) THEN NaN
                ELSE MulScale(vel.angle, statics.angle.linear_friction_scalar, FricDen),
                statics.angle.constant_friction)]

\* the integration with the frictions applied before the pose is advanced
Integrate_FrictionFirst(body, acc) ==
    The({[body EXCEPT !.pos = add(body.pos, vel), !.vel = vel] :
         vel \in {Friction(body.statics, add(body.vel, acc))}})

\* update, from "body.vel.add_from(&acc)" to the constant friction
Integrate(body, acc) ==
    The({[body EXCEPT !.pos = add(body.pos, vel), !.vel = Friction(body.statics, vel)] :
         vel \in {add(body.vel, acc)}})

\* update's loop body after the fold f: gravity, then the integration
UpdateWith(body, f) ==
    IF f.panic THEN [panic |-> TRUE, body |-> body]
    ELSE [panic |-> FALSE,
          body |-> Integrate(body, [xy |-> VAdd(f.acc.xy, <<0, Gravity>>),
                                    angle |-> f.acc.angle])]

\* the body of update's loop for one body
UpdateBody(body) == UpdateWith(body, FoldTuggers(body, 0, FieldScalarsDefault))

(* ---- MyGame: state, construction, event handlers ---- *)

VARIABLES
    bodies,   \* MyGame.bodies: body index (0..1) -> Body
    status,   \* "running", "quit" (event::quit) or "panicked" (a failed assert!)
    ticks,    \* the number of update calls so far
    call,     \* a single tug_acc call and its result (SpecTug)
    solo      \* a single body under Integrate (SpecInteg)

vars == <<bodies, status, ticks, call, solo>>

\* the largest number of update calls in a run
MaxTicks == 2

Some(t) == <<t>>

None == <<>>

Statics(xy_acc, ang_acc, lin_fric, xy_const, ang_const) ==
    [xy |-> [acc_scalar |-> xy_acc, linear_friction_scalar |-> lin_fric,
             constant_friction |-> xy_const],
     angle |-> [acc_scalar |-> ang_acc, linear_friction_scalar |-> lin_fric,
                constant_friction |-> ang_const]]

Tugger(dest, len, ang) ==
    [relative_body_handle_xy |-> [length |-> len, angle |-> ang], world_dest |-> dest]

\* MyGame::new, bodies[0]
Body0 ==
    [statics |-> Statics(3, 9, 99, 1, 1),
     pos |-> [xy |-> <<300000, 300000>>, angle |-> 10000],
     vel |-> [xy |-> ZERO, angle |-> 0],
     tuggers |-> (0 :> None @@
                  1 :> Some(Tugger(<<300000, 280000>>, 7000, 20000)) @@
                  2 :> Some(Tugger(<<400000, 220000>>, 9000, 24000))),
     max_tug_handle_distance |-> 35000]

\* MyGame::new, bodies[1]
Body1 ==
    [statics |-> Statics(2, 7, 99, 1, 1),
     pos |-> [xy |-> <<300000, 300000>>, angle |-> 10000],
     vel |-> [xy |-> ZERO, angle |-> 0],
     tuggers |-> (0 :> None @@
                  1 :> Some(Tugger(<<450000, 100000>>, 35000, 3000)) @@
                  2 :> Some(Tugger(<<510000, 400000>>, 30000, 31000))),
     max_tug_handle_distance |-> 80000]

NewBodies == (0 :> Body0 @@ 1 :> Body1)

NoCall == [done |-> FALSE]

NoSolo == [steps |-> 0]

Init ==
    /\ bodies = NewBodies
    /\ status = "running"
    /\ ticks = 0
    /\ call = NoCall
    /\ solo = NoSolo

\* the pointer positions, mouse buttons and keys the events are drawn from
PointerXY == {<<300000, 300000>>, <<350000, 300000>>}

Buttons == {"Left", "Right"}

KeyCodes == {"Space", "Escape", "A"}

\* mouse_button_down_event without the distance test
MouseDownWith_NoReach(body, mouse_xy, relative_body_handle_xy) ==
    [body EXCEPT !.tuggers[0] =
        Some([relative_body_handle_xy |-> relative_body_handle_xy, world_dest |-> mouse_xy])]

\* mouse_button_down_event, the distance test and the assignment of slot 0
MouseDownWith(body, mouse_xy, relative_body_handle_xy) ==
    IF FLeq(relative_body_handle_xy.length, body.max_tug_handle_distance)
    THEN [body EXCEPT !.tuggers[0] =
             Some([relative_body_handle_xy |-> relative_body_handle_xy,
                   world_dest |-> mouse_xy])]
    ELSE body

\* mouse_button_down_event, the loop body for one body
MouseDownBody(body, mouse_xy) ==
    MouseDownWith(body, mouse_xy,
        from_xy(rotated(VSub(mouse_xy, body.pos.xy), FNeg(body.pos.angle))))

\* mouse_button_down_event
mouse_button_down_event(button, mouse_xy) ==
    /\ status = "running"
    /\ bodies' = IF button = "Left"
                 THEN [i \in DOMAIN bodies |-> MouseDownBody(bodies[i], mouse_xy)]
                 ELSE bodies
    /\ UNCHANGED <<status, ticks, call, solo>>

\* mouse_button_up_event clearing every slot of the body
MouseUpBody_ClearAll(body) == [body EXCEPT !.tuggers = [j \in DOMAIN body.tuggers |-> None]]

\* mouse_button_up_event, the loop body for one body
MouseUpBody(body) == [body EXCEPT !.tuggers[0] = None]

\* mouse_button_up_event
mouse_button_up_event(button) ==
    /\ status = "running"
    /\ bodies' = IF button = "Left"
                 THEN [i \in DOMAIN bodies |-> MouseUpBody(bodies[i])]
                 ELSE bodies
    /\ UNCHANGED <<status, ticks, call, solo>>

\* mouse_motion_event, the loop body for one body
MouseMotionBody(body, mouse_xy) ==
    IF body.tuggers[0] # None
    THEN [body EXCEPT !.tuggers[0] = Some([body.tuggers[0][1] EXCEPT !.world_dest = mouse_xy])]
    ELSE body

\* mouse_motion_event
mouse_motion_event(mouse_xy) ==
    /\ status = "running"
    /\ bodies' = [i \in DOMAIN bodies |-> MouseMotionBody(bodies[i], mouse_xy)]
    /\ UNCHANGED <<status, ticks, call, solo>>

\* key_down_event, KeyCode::Space: the x and y of a slot's world_dest swapped
SwapDest(slot) ==
    IF slot = None THEN None
    ELSE Some([slot[1] EXCEPT !.world_dest = <<slot[1].world_dest[2], slot[1].world_dest[1]>>])

\* the loop of KeyCode::Space over every body
SpaceBodies_All == DOMAIN bodies

\* key_down_event, KeyCode::Space: the bodies the loop visits, self.bodies[1..]
SpaceBodies == {i \in DOMAIN bodies : i >= 1}

\* key_down_event, KeyCode::Space: the loop over the bodies
SpaceSwap(bs) ==
    [i \in DOMAIN bs |->
        IF i \in SpaceBodies
        THEN [bs[i] EXCEPT !.tuggers = [j \in DOMAIN bs[i].tuggers |-> SwapDest(bs[i].tuggers[j])]]
        ELSE bs[i]]

\* key_down_event
key_down_event(keycode, repeat) ==
    /\ status = "running"
    /\ bodies' = IF ~repeat /\ keycode = "Space" THEN SpaceSwap(bodies) ELSE bodies
    /\ status' = IF ~repeat /\ keycode = "Escape" THEN "quit" ELSE status
    /\ UNCHANGED <<ticks, call, solo>>

\* update's loop leaving out the first body
UpdateLoop_SkipFirst(bs, i) ==
    IF UpdateBody(bs[1]).panic THEN [panic |-> TRUE, bodies |-> bs]
    ELSE [panic |-> FALSE, bodies |-> [bs EXCEPT ![1] = UpdateBody(bs[1]).body]]

\* update's loop over the bodies from index i on; a failed assertion ends it
RECURSIVE UpdateLoop(_, _)
RECURSIVE UpdateLoopStep(_, _, _)
UpdateLoopStep(bs, i, r) ==
    IF r.panic THEN [panic |-> TRUE, bodies |-> bs]
    ELSE UpdateLoop([bs EXCEPT ![i] = r.body], i + 1)

UpdateLoop(bs, i) ==
    IF i > 1 THEN [panic |-> FALSE, bodies |-> bs]
    ELSE UpdateLoopStep(bs, i, UpdateBody(bs[i]))

\* update
update ==
    /\ status = "running"
    /\ \E r \in {UpdateLoop(bodies, 0)} :
           /\ bodies' = r.bodies
           /\ status' = IF r.panic THEN "panicked" ELSE status
    /\ ticks' = ticks + 1
    /\ UNCHANGED <<call, solo>>

\* one event of the event loop; a run is followed for MaxTicks update calls
Live == ticks < MaxTicks

Next ==
    \/ \E b \in Buttons, p \in PointerXY : Live /\ mouse_button_down_event(b, p)
    \/ \E b \in Buttons : Live /\ mouse_button_up_event(b)
    \/ \E p \in PointerXY : Live /\ mouse_motion_event(p)
    \/ \E k \in KeyCodes, r \in BOOLEAN : Live /\ key_down_event(k, r)
    \/ Live /\ update

Spec == Init /\ [][Next]_vars

(* ---- two bodies constructed alike (the construction of bodies[1], twice) ---- *)

InitTwin ==
    /\ bodies = (0 :> Body1 @@ 1 :> Body1)
    /\ status = "running"
    /\ ticks = 0
    /\ call = NoCall
    /\ solo = NoSolo

SpecTwin == InitTwin /\ [][Next]_vars

(* ---- tug_acc alone: one call on inputs drawn from small sets ---- *)

\* bodies[0] with the linear acc_scalar 1.0
UnitBody == [Body0 EXCEPT !.statics.xy.acc_scalar = AccDen]

TugBodies == {Body0, Body1, UnitBody}

TugContacts ==
    {ZERO, <<7000, 0>>, <<0, -35000>>, <<21000, 28000>>, <<36000, 0>>, <<-60000, 70000>>, NaNVec}

TugForces == {ZERO, <<10000, 0>>, <<0, -5000>>, <<3000, 4000>>, <<-20000, 1000>>}

InitTug ==
    /\ bodies = NewBodies
    /\ status = "running"
    /\ ticks = 0
    /\ solo = NoSolo
    /\ \E b \in TugBodies, c \in TugContacts, f \in TugForces :
           call = [done |-> FALSE, body |-> b, contact |-> c, force |-> f]

CallTugAcc ==
    /\ ~call.done
    /\ call' = [done |-> TRUE, body |-> call.body, contact |-> call.contact,
                force |-> call.force,
                result |-> tug_acc(call.body, call.contact, call.force)]
    /\ UNCHANGED <<bodies, status, ticks, solo>>

NextTug == CallTugAcc

SpecTug == InitTug /\ [][NextTug]_vars

(* ---- the integration alone: one body without tuggers, under a constant ---- *)
(* ---- external acceleration                                            ---- *)

\* the largest number of integration steps in a run
MaxSteps == 12

SoloBody(vxy, va, lin_fric, xy_const, ang_const) ==
    [statics |-> Statics(3, 9, lin_fric, xy_const, ang_const),
     pos |-> [xy |-> ZERO, angle |-> 0],
     vel |-> [xy |-> vxy, angle |-> va],
     tuggers |-> (0 :> None @@ 1 :> None @@ 2 :> None),
     max_tug_handle_distance |-> 35000]

SoloVelXy == {ZERO, <<3, 4>>, <<-6, 8>>, <<0, -5>>, <<7, 7>>}

SoloVelAngle == {0, 6, -8}

SoloLinFric == {FricDen, 99, 50}

SoloConst == {<<0, 0>>, <<1, 1>>, <<3, 2>>}

SoloAcc == {FieldScalarsDefault, [xy |-> <<2, 0>>, angle |-> 1]}

\* a body moving at one pixel per tick with no friction at all
Coasting == SoloBody(<<LinScale, 0>>, 0, FricDen, 0, 0)

InitInteg ==
    /\ bodies = NewBodies
    /\ status = "running"
    /\ ticks = 0
    /\ call = NoCall
    /\ \/ \E v \in SoloVelXy, va \in SoloVelAngle, lf \in SoloLinFric,
             c \in SoloConst, a \in SoloAcc :
             solo = [steps |-> 0, body |-> SoloBody(v, va, lf, c[1], c[2]), acc |-> a]
       \/ solo = [steps |-> 0, body |-> Coasting, acc |-> FieldScalarsDefault]

IntegrateStep ==
    /\ solo.steps < MaxSteps
    /\ solo' = [steps |-> solo.steps + 1, body |-> Integrate(solo.body, solo.acc),
                acc |-> solo.acc]
    /\ UNCHANGED <<bodies, status, ticks, call>>

NextInteg == IntegrateStep

SpecInteg == InitInteg /\ [][NextInteg]_vars

\* the event loop calls update on every frame
SpecIntegFair == SpecInteg /\ WF_vars(IntegrateStep)

(***************************************************************************)
(* The claims                                                              *)
(***************************************************************************)

Populated(slot) == slot # None

\* the pointer at p is within max_tug_handle_distance of the centre of body,
\* measured in the body's un-rotated frame
InReach(body, p) ==
    FLeq(Length(rotated(VSub(p, body.pos.xy), FNeg(body.pos.angle))),
         body.max_tug_handle_distance)

IsKeyStep == \E k \in KeyCodes, r \in BOOLEAN : key_down_event(k, r)

IsTickStep == ticks' = ticks + 1

Swapped(xy) == <<xy[2], xy[1]>>

Finite(fs) == ~IsNaNVec(fs.xy) /\ ~IsNaN(fs.angle)

\* C1: slot 0 of a body goes from empty to populated only on a left-button
\* activation whose pointer is within reach of that body, goes from populated
\* to empty only on a release, stays populated with its target set to the
\* pointer on a move while populated, and keeps its populated state on a move
\* while empty, a key command and a tick.
C1_LiveSlotTransitions ==
    [][\A i \in DOMAIN bodies :
        /\ (~Populated(bodies[i].tuggers[0]) /\ Populated(bodies'[i].tuggers[0]))
              => \E p \in PointerXY : /\ mouse_button_down_event("Left", p)
                                       /\ InReach(bodies[i], p)
        /\ (Populated(bodies[i].tuggers[0]) /\ ~Populated(bodies'[i].tuggers[0]))
              => \E b \in Buttons : mouse_button_up_event(b)
        /\ \A p \in PointerXY : mouse_motion_event(p) =>
              IF Populated(bodies[i].tuggers[0])
              THEN /\ Populated(bodies'[i].tuggers[0])
                   /\ bodies'[i].tuggers[0][1].world_dest = p
              ELSE ~Populated(bodies'[i].tuggers[0])
        /\ (IsKeyStep \/ IsTickStep)
              => (Populated(bodies'[i].tuggers[0]) <=> Populated(bodies[i].tuggers[0]))
      ]_vars

\* C1 witness: after a tick, a press at (350, 300) populated slot 0 of
\* bodies[1] and left slot 0 of bodies[0] (out of reach) empty, and a move
\* then set the target to (300, 300).
C1_MovedLiveSlot ==
    /\ ticks >= 1
    /\ ~Populated(bodies[0].tuggers[0])
    /\ Populated(bodies[1].tuggers[0])
    /\ bodies[1].tuggers[0][1].relative_body_handle_xy.length > 40000
    /\ bodies[1].tuggers[0][1].world_dest = <<300000, 300000>>

\* C2: every populated slot has an anchor length within 0..max_tug_distance
\* and the assertions of tug_acc never fail in a tick.
C2_AssertionsNeverFail ==
    /\ status # "panicked"
    /\ \A i \in DOMAIN bodies, j \in 0..2 :
          Populated(bodies[i].tuggers[j]) =>
              /\ FLeq(0, bodies[i].tuggers[j][1].relative_body_handle_xy.length)
              /\ FLeq(bodies[i].tuggers[j][1].relative_body_handle_xy.length,
                      bodies[i].max_tug_handle_distance)

\* C3: the split is never taken against a zero contact, so the pose and the
\* velocity of every body stay finite.
C3_PoseAlwaysFinite ==
    \A i \in DOMAIN bodies : Finite(bodies[i].pos) /\ Finite(bodies[i].vel)

\* C4: tug_acc with the contact at the centre of mass and a non-zero force f
\* returns the linear acceleration acc_scalar * f and the angular acceleration 0
\* (for acc_scalar 1 and f = (10, 0): (10, 0) and 0).
C4_CentreForceTranslates ==
    (call.done /\ call.contact = ZERO /\ call.force # ZERO) =>
        /\ ~call.result.panic
        /\ call.result.xy = VScale(call.force, call.body.statics.xy.acc_scalar, AccDen)
        /\ call.result.angle = 0

NormSq(v) == v[1] * v[1] + v[2] * v[2]

\* the body of SpecInteg is under friction alone: no external acceleration,
\* linear_friction_scalar in (0, 1], constant_friction > 0 on both axes
FrictionOnly ==
    /\ solo.acc = FieldScalarsDefault
    /\ solo.body.statics.xy.linear_friction_scalar \in 1..FricDen
    /\ solo.body.statics.angle.linear_friction_scalar \in 1..FricDen
    /\ solo.body.statics.xy.constant_friction > 0
    /\ solo.body.statics.angle.constant_friction > 0

\* C5: under friction alone the magnitude of the linear velocity and the
\* absolute angular velocity never increase from one tick to the next, and
\* after finitely many ticks the velocity is exactly zero and stays zero.
C5_FrictionStops ==
    /\ [][FrictionOnly =>
            /\ NormSq(solo'.body.vel.xy) <= NormSq(solo.body.vel.xy)
            /\ Abs(solo'.body.vel.angle) <= Abs(solo.body.vel.angle)]_vars
    /\ <>[](FrictionOnly => solo.body.vel = FieldScalarsDefault)

\* C5 witness: a body that started with a non-zero velocity under friction
\* alone has moved and has come to rest.
C5_CameToRest ==
    /\ FrictionOnly
    /\ solo.steps >= 2
    /\ solo.body.statics.xy.linear_friction_scalar = FricDen
    /\ solo.body.vel = FieldScalarsDefault
    /\ solo.body.pos.xy # ZERO
    /\ solo.body.pos.angle # 0

\* C6: one integration step adds the acceleration to the velocity, then the
\* velocity to the pose, then applies the proportional decay, then the
\* constant decay: the pose advances by the velocity before any decay, the
\* angular velocity is the sum decayed proportionally and then by the constant,
\* and a body at (0, 0) with velocity (1, 0), no friction and no acceleration
\* is at (1, 0) with velocity (1, 0) after one step.
C6_IntegrationOrder ==
    [][/\ solo'.body.pos.xy = <<solo.body.pos.xy[1] + solo.body.vel.xy[1] + solo.acc.xy[1],
                                solo.body.pos.xy[2] + solo.body.vel.xy[2] + solo.acc.xy[2]>>
       /\ solo'.body.pos.angle = solo.body.pos.angle + solo.body.vel.angle + solo.acc.angle
       /\ LET w == (solo.body.vel.angle + solo.acc.angle)
                       * solo.body.statics.angle.linear_friction_scalar
              c == solo.body.statics.angle.constant_friction
          IN  w % FricDen = 0 =>
                 solo'.body.vel.angle =
                     IF w >= 0 THEN (IF w \div FricDen > c THEN (w \div FricDen) - c ELSE 0)
                     ELSE (IF w \div FricDen < -c THEN (w \div FricDen) + c ELSE 0)
       /\ (solo.body = Coasting /\ solo.acc = FieldScalarsDefault) =>
             /\ solo'.body.pos.xy = <<LinScale, 0>>
             /\ solo'.body.vel = [xy |-> <<LinScale, 0>>, angle |-> 0]
      ]_vars

\* C6 witness: the body that started at (0, 0) with velocity (1, 0) and no
\* friction, after one step.
C6_CoastedOneStep ==
    /\ solo.steps = 1
    /\ solo.acc = FieldScalarsDefault
    /\ solo.body.statics = Coasting.statics
    /\ solo.body.pos.xy = <<LinScale, 0>>
    /\ solo.body.vel.xy = <<LinScale, 0>>

\* C7 as stated: the Space command swaps the x and y of the target of every
\* populated slot of index >= 1 of every body and leaves slot 0, the anchors,
\* the poses and the velocities unchanged.
C7_MirrorsNonLiveSlots ==
    [][key_down_event("Space", FALSE) =>
          \A i \in DOMAIN bodies :
              /\ bodies'[i].tuggers[0] = bodies[i].tuggers[0]
              /\ \A j \in 1..2 : Populated(bodies[i].tuggers[j]) =>
                    bodies'[i].tuggers[j] =
                        Some([relative_body_handle_xy |->
                                  bodies[i].tuggers[j][1].relative_body_handle_xy,
                              world_dest |-> Swapped(bodies[i].tuggers[j][1].world_dest)])
              /\ bodies'[i].pos = bodies[i].pos
              /\ bodies'[i].vel = bodies[i].vel
      ]_vars

\* C7 amended: the Space command leaves bodies[0] unchanged; in every other
\* body it swaps the x and y of the target of every populated slot, slot 0
\* included, keeps the anchors and the empty slots, and leaves the pose, the
\* velocity and the coefficients unchanged.
C7_MirrorsEverySlotButFirstBody ==
    [][key_down_event("Space", FALSE) =>
          /\ bodies'[0] = bodies[0]
          /\ \A i \in DOMAIN bodies \ {0} :
              /\ \A j \in DOMAIN bodies[i].tuggers :
                    IF Populated(bodies[i].tuggers[j])
                    THEN bodies'[i].tuggers[j] =
                             Some([relative_body_handle_xy |->
                                       bodies[i].tuggers[j][1].relative_body_handle_xy,
                                   world_dest |-> Swapped(bodies[i].tuggers[j][1].world_dest)])
                    ELSE ~Populated(bodies'[i].tuggers[j])
              /\ bodies'[i].pos = bodies[i].pos
              /\ bodies'[i].vel = bodies[i].vel
              /\ bodies'[i].statics = bodies[i].statics
              /\ bodies'[i].max_tug_handle_distance = bodies[i].max_tug_handle_distance
          /\ status' = status
          /\ ticks' = ticks
      ]_vars

\* C7 witness: after a press at (350, 300) and Space, slot 0 and slot 1 of
\* bodies[1] carry swapped targets and slot 1 of bodies[0] its constructed one.
C7_LiveSlotMirrored ==
    /\ Populated(bodies[1].tuggers[0])
    /\ bodies[1].tuggers[0][1].world_dest = <<300000, 350000>>
    /\ bodies[1].tuggers[1][1].world_dest = <<100000, 450000>>
    /\ bodies[0].tuggers[1][1].world_dest = <<300000, 280000>>

\* C8: the slots of index >= 1 stay populated with the anchor they were
\* constructed with; their target changes only in a Space command.
C8_FixedSlotsPersist ==
    [][\A i \in DOMAIN bodies, j \in 1..2 :
          /\ Populated(bodies[i].tuggers[j])
          /\ Populated(bodies'[i].tuggers[j])
          /\ bodies'[i].tuggers[j][1].relative_body_handle_xy =
                 NewBodies[i].tuggers[j][1].relative_body_handle_xy
          /\ (bodies'[i].tuggers[j][1].world_dest # bodies[i].tuggers[j][1].world_dest
                 => key_down_event("Space", FALSE))
      ]_vars

\* C8 witness: after a tick, a press and a release, and a Space command, slot 2
\* of bodies[1] holds its constructed anchor and the swapped target.
C8_AnchoredAfterEvents ==
    /\ ticks >= 1
    /\ ~Populated(bodies[1].tuggers[0])
    /\ bodies[1].vel.xy # ZERO
    /\ bodies[1].tuggers[2] = Some(Tugger(<<400000, 510000>>, 30000, 31000))

\* C9 as stated: two bodies constructed alike stay alike under every sequence
\* of events and ticks.
C9_TwinsStayAlike == bodies[0] = bodies[1]

\* C9 amended: every step other than the Space command (a pointer press, move
\* or release, any other key, a tick) takes two bodies that are alike to two
\* bodies that are alike.
C9_TwinsAlikeButForSpace ==
    [][(bodies[0] = bodies[1] /\ ~key_down_event("Space", FALSE))
          => bodies'[0] = bodies'[1]]_vars

\* C9 witness: two bodies still alike after a tick, with slot 0 populated.
C9_TwinsAlikeAfterTick ==
    /\ ticks >= 1
    /\ bodies[0] = bodies[1]
    /\ Populated(bodies[0].tuggers[0])
    /\ bodies[0].pos # Body1.pos
    /\ Finite(bodies[0].pos)

\* C10: tug_acc with a zero force returns zero linear and zero angular
\* acceleration for every contact, without a failed assertion.
C10_ZeroForceZeroAcc ==
    (call.done /\ call.force = ZERO) =>
        call.result = [panic |-> FALSE, xy |-> ZERO, angle |-> 0]

\* C10 witness: a call with a zero force and a contact longer than the body's
\* max_tug_handle_distance has returned.
C10_ZeroForceLongContact ==
    /\ call.done
    /\ call.force = ZERO
    /\ call.contact = <<-60000, 70000>>
    /\ call.body.max_tug_handle_distance = 35000

====
